---- MODULE Spec2Model ----
(***************************************************************************)
(* The risk engine (risk_engine_rust), the Monte Carlo engine              *)
(* (risk_engine_rust_gpu) and the backtester (backtester_rust) as state    *)
(* machines.                                                               *)
(*                                                                         *)
(* f64 values are modelled as exact rationals <<n, d>> with d > 0 in       *)
(* lowest terms; all inputs are finite and small, so no operation of the   *)
(* model overflows or rounds.                                              *)
(***************************************************************************)
EXTENDS Integers, Sequences, FiniteSets, TLC

VARIABLES
    risk_state,     \* AppState.risk_state: the value inside the Mutex
    lock,           \* owner of the Mutex guard, or NoOwner
    pc,             \* per worker thread: position inside its handler
    local,          \* per worker thread: the handler's request and locals
    resp,           \* per worker thread: the last HTTP response it produced
    disk,           \* content of the file at RISK_STATE_PATH
    now,            \* SystemTime::now() in seconds
    served,         \* number of requests accepted so far
    last_written,   \* history: the RiskState the last finished evaluate-risk wrote
    last_save,      \* history: outcome of the most recent persist_risk_state
    last_fetch,     \* history: snapshot of the last fetch-state since a mutation
    mc_first,       \* Monte Carlo service: a remembered earlier call
    mc_last,        \* Monte Carlo service: the most recent call
    mc_tail,        \* Monte Carlo service: the tail statistics of the latest samples
    bt_pc,          \* backtester: position inside main
    bt_args,        \* backtester: the parsed command line
    bt_buffer,      \* backtester: the slots collect() fills, one per strategy
    bt_overtaken,   \* history: a strategy finished before one listed earlier
    bt_report       \* backtester: the report written to --out

vars == <<risk_state, lock, pc, local, resp, disk, now,
          served, last_written, last_save, last_fetch, mc_first, mc_last, mc_tail,
          bt_pc, bt_args, bt_buffer, bt_overtaken, bt_report>>

srv_vars == <<risk_state, lock, pc, local, resp, disk, now,
              served, last_written, last_save, last_fetch>>

mc_vars == <<mc_first, mc_last, mc_tail>>

bt_vars == <<bt_pc, bt_args, bt_buffer, bt_overtaken, bt_report>>

(***************************************************************************)
(* Bounds of the model                                                     *)
(***************************************************************************)
MaxPositions == 2
MaxScenarios == 1
MaxClock == 1
MaxRequests == 3
MaxSeqRequests == 2

Workers == {"w1", "w2"}
NoOwner == "none"
\* Option<T>: None, or Some(x)
None == <<>>
Some(x) == <<x>>

(***************************************************************************)
(* Rational arithmetic                                                     *)
(***************************************************************************)
Abs(x) == IF x < 0 THEN -x ELSE x

RECURSIVE GCD(_, _)
GCD(a, b) == IF b = 0 THEN a ELSE GCD(b, a % b)

\* The fraction n/d in lowest terms with a positive denominator
Lowest(n, d) ==
    LET s == IF d < 0 THEN -1 ELSE 1
        g == GCD(Abs(n), Abs(d))
    IN  IF n = 0 THEN <<0, 1>> ELSE <<(s * n) \div g, (s * d) \div g>>

\* n and d are worked out once, then reduced
Rat(n, d) == CHOOSE q \in {Lowest(p[1], p[2]) : p \in {<<n, d>>}} : TRUE

R(n) == <<n, 1>>
Zero == <<0, 1>>
\* Sums are taken over the least common denominator
RAdd(a, b) ==
    LET g == GCD(a[2], b[2])
    IN  Rat(a[1] * (b[2] \div g) + b[1] * (a[2] \div g), (a[2] \div g) * b[2])
RSub(a, b) ==
    LET g == GCD(a[2], b[2])
    IN  Rat(a[1] * (b[2] \div g) - b[1] * (a[2] \div g), (a[2] \div g) * b[2])
RMul(a, b) == Rat(a[1] * b[1], a[2] * b[2])
RDiv(a, b) == Rat(a[1] * b[2], a[2] * b[1])
RNeg(a) == <<-a[1], a[2]>>
RAbs(a) == <<Abs(a[1]), a[2]>>
RLt(a, b) == a[1] * b[2] < b[1] * a[2]
RLe(a, b) == a[1] * b[2] <= b[1] * a[2]
RGt(a, b) == RLt(b, a)
RGe(a, b) == RLe(b, a)
\* f64::max and f64::min
RMax(a, b) == IF RLt(a, b) THEN b ELSE a
RMin(a, b) == IF RLt(b, a) THEN b ELSE a

RECURSIVE RSum(_)
RSum(xs) == IF xs = <<>> THEN Zero ELSE RAdd(xs[1], RSum(Tail(xs)))

SeqsUpTo(S, n) == UNION {[1..k -> S] : k \in 0..n}

(***************************************************************************)
(* risk_engine_rust: the pure calculators                                  *)
(***************************************************************************)
Symbols == {"BTC", "ETH"}
Quantities == {R(-1), R(1)}
Prices == {R(50)}
PositionSet == [symbol : Symbols, quantity : Quantities, price : Prices]
PositionLists == SeqsUpTo(PositionSet, MaxPositions)
PortfolioValues == {R(0), R(100)}
Confidences == {Rat(95, 100), Rat(99, 100)}

\* positions.iter().map(|p| p.quantity * p.price)
Values(positions) == [i \in 1..Len(positions) |->
                        RMul(positions[i].quantity, positions[i].price)]
AbsValues(positions) == [i \in 1..Len(positions) |->
                        RAbs(RMul(positions[i].quantity, positions[i].price))]

ZScore(confidence) ==
    IF RGe(confidence, Rat(99, 100)) THEN Rat(233, 100)
    ELSE IF RGe(confidence, Rat(95, 100)) THEN Rat(165, 100)
    ELSE Rat(128, 100)

Volatility == Rat(2, 100)

compute_var(positions, portfolio_value, confidence) ==
    IF positions = <<>> \/ RLe(portfolio_value, Zero) THEN Zero
    ELSE LET total_value == RSum(Values(positions))
             exposure_ratio == RDiv(total_value, portfolio_value)
         IN  RMul(RMul(RMul(ZScore(confidence), Volatility), portfolio_value),
                  exposure_ratio)

CvarMultiplier(confidence) ==
    IF RGe(confidence, Rat(99, 100)) THEN Rat(130, 100)
    ELSE IF RGe(confidence, Rat(95, 100)) THEN Rat(125, 100)
    ELSE Rat(120, 100)

compute_cvar(var, confidence) ==
    IF RLe(var, Zero) THEN Zero ELSE RMul(var, CvarMultiplier(confidence))

compute_exposure(positions, portfolio_value) ==
    IF RLe(portfolio_value, Zero) THEN Zero
    ELSE RDiv(RSum(AbsValues(positions)), portfolio_value)

compute_drawdown_from_positions(positions, portfolio_value) ==
    LET total_value == RSum(Values(positions))
    IN  IF RGt(portfolio_value, Zero)
        THEN RMin(RMax(RMul(RDiv(RSub(portfolio_value, total_value),
                                 portfolio_value), R(100)),
                       Zero),
                  R(100))
        ELSE Zero

(***************************************************************************)
(* RiskState, its JSON snapshot and the process start                      *)
(***************************************************************************)
\* RiskState::default(); last_update is the clock at construction
RiskStateDefault(t) ==
    [total_exposure |-> Zero, active_positions |-> 0, var |-> Zero,
     cvar |-> Zero, drawdown |-> Zero, last_update |-> t]

FieldOrder == <<"total_exposure", "active_positions", "var", "cvar",
                "drawdown", "last_update">>

\* serde_json::to_string_pretty: the object's members in declaration order
Serialize(state) ==
    <<  <<"total_exposure", state.total_exposure>>,
        <<"active_positions", state.active_positions>>,
        <<"var", state.var>>,
        <<"cvar", state.cvar>>,
        <<"drawdown", state.drawdown>>,
        <<"last_update", state.last_update>> >>

\* serde_json::from_str::<RiskState>: every member must be present
Deserialize(text) ==
    IF Len(text) = Len(FieldOrder)
       /\ \A i \in 1..Len(FieldOrder) : text[i][1] = FieldOrder[i]
    THEN [ok |-> TRUE,
          state |-> [total_exposure |-> text[1][2],
                     active_positions |-> text[2][2],
                     var |-> text[3][2],
                     cvar |-> text[4][2],
                     drawdown |-> text[5][2],
                     last_update |-> text[6][2]]]
    ELSE [ok |-> FALSE, state |-> RiskStateDefault(0)]

FileAbsent == [exists |-> FALSE, text |-> <<>>]
File(text) == [exists |-> TRUE, text |-> text]

load_risk_state(d, t) ==
    IF d.exists /\ Deserialize(d.text).ok
    THEN Deserialize(d.text).state
    ELSE RiskStateDefault(t)

\* Points at which an interrupted fs::write may leave the file cut
TruncationPoints == {0}
PersistOutcomes == {"ok", "mkdir_failed", "write_failed"}

\* A save that reports success without replacing the file
DiskAfterPersistKeepsOld(state, outcome, old) == {old}

\* The files persist_risk_state may leave behind, given its outcome
DiskAfterPersist(state, outcome, old) ==
    CASE outcome = "ok" -> {File(Serialize(state))}
      [] outcome = "mkdir_failed" -> {old}
      [] outcome = "write_failed" ->
            {old} \cup {File(SubSeq(Serialize(state), 1, k)) : k \in TruncationPoints}

\* A failed save that resets the state in memory
MemoryAfterPersistRollsBack(state, outcome) ==
    IF outcome = "ok" THEN state ELSE RiskStateDefault(state.last_update)

\* persist_risk_state borrows the state immutably: memory after the call
MemoryAfterPersist(state, outcome) == state

\* What a snapshot of an earlier run of the service looks like
PriorState ==
    LET ps == <<[symbol |-> "BTC", quantity |-> R(1), price |-> R(50)]>>
        pv == R(100)
        c  == Rat(99, 100)
        v  == compute_var(ps, pv, c)
    IN  [total_exposure |-> compute_exposure(ps, pv),
         active_positions |-> Len(ps),
         var |-> v,
         cvar |-> compute_cvar(v, c),
         drawdown |-> compute_drawdown_from_positions(ps, pv),
         last_update |-> 0]

InitialDisks == {FileAbsent, File(Serialize(PriorState))}

NoLocal == [op |-> "none"]
NoResp == [op |-> "none"]

Init ==
    /\ now = 0
    /\ disk \in InitialDisks
    /\ risk_state = load_risk_state(disk, now)
    /\ lock = NoOwner
    /\ pc = [w \in Workers |-> "idle"]
    /\ local = [w \in Workers |-> NoLocal]
    /\ resp = [w \in Workers |-> NoResp]
    /\ served = 0
    /\ last_written = risk_state
    /\ last_save = "none"
    /\ last_fetch = None
    /\ mc_first = None
    /\ mc_last = None
    /\ mc_tail = None
    /\ bt_pc = "args"
    /\ bt_args = None
    /\ bt_buffer = <<>>
    /\ bt_overtaken = FALSE
    /\ bt_report = None

(***************************************************************************)
(* The Mutex around RiskState                                              *)
(***************************************************************************)
\* History: a read-only request finished after the last fetch-state
ReadBetween(fetched) ==
    IF fetched = None THEN None
    ELSE Some([body |-> fetched[1].body, between |-> TRUE,
               repeated |-> fetched[1].repeated])

\* A lock that never blocks
CanLockAlways(w) == TRUE

\* Mutex::lock blocks until no guard is alive
CanLock(w) == lock = NoOwner

\* The worker thread is between two requests
Free(w) == pc[w] \in {"idle", "done"}

(***************************************************************************)
(* POST /risk/evaluate                                                     *)
(***************************************************************************)
EvalBegin(w, positions, portfolio_value, confidence) ==
    /\ Free(w)
    /\ LET v == compute_var(positions, portfolio_value, confidence)
       IN  local' = [local EXCEPT ![w] =
                [op |-> "evaluate",
                 exposure |-> compute_exposure(positions, portfolio_value),
                 drawdown |-> compute_drawdown_from_positions(positions, portfolio_value),
                 var |-> v,
                 cvar |-> compute_cvar(v, confidence),
                 npos |-> Len(positions),
                 save |-> "none"]]
    /\ pc' = [pc EXCEPT ![w] = "eval_lock"]
    /\ served' = served + 1
    /\ UNCHANGED <<risk_state, lock, resp, disk, now,
                   last_written, last_save, last_fetch, mc_vars, bt_vars>>

EvalLock(w) ==
    /\ pc[w] = "eval_lock"
    /\ CanLock(w)
    /\ lock' = w
    /\ pc' = [pc EXCEPT ![w] = "eval_set_exposure"]
    /\ UNCHANGED <<risk_state, local, resp, disk, now, served,
                   last_written, last_save, last_fetch, mc_vars, bt_vars>>

\* One assignment to a field of the guarded RiskState
EvalSet(w, at, field, value, next) ==
    /\ pc[w] = at
    /\ risk_state' = [risk_state EXCEPT ![field] = value]
    /\ pc' = [pc EXCEPT ![w] = next]
    /\ last_fetch' = None
    /\ UNCHANGED <<lock, local, resp, disk, now, served,
                   last_save, mc_vars, bt_vars>>

EvalSetExposure(w) ==
    /\ EvalSet(w, "eval_set_exposure", "total_exposure", local[w].exposure,
               "eval_set_positions")
    /\ UNCHANGED last_written

EvalSetPositions(w) ==
    /\ EvalSet(w, "eval_set_positions", "active_positions", local[w].npos,
               "eval_set_var")
    /\ UNCHANGED last_written

EvalSetVar(w) ==
    /\ EvalSet(w, "eval_set_var", "var", local[w].var, "eval_set_cvar")
    /\ UNCHANGED last_written

EvalSetCvar(w) ==
    /\ EvalSet(w, "eval_set_cvar", "cvar", local[w].cvar, "eval_set_drawdown")
    /\ UNCHANGED last_written

EvalSetDrawdown(w) ==
    /\ EvalSet(w, "eval_set_drawdown", "drawdown", local[w].drawdown,
               "eval_set_last_update")
    /\ UNCHANGED last_written

EvalSetLastUpdate(w) ==
    /\ EvalSet(w, "eval_set_last_update", "last_update", now, "eval_persist")
    /\ last_written' = [total_exposure |-> local[w].exposure,
                        active_positions |-> local[w].npos,
                        var |-> local[w].var,
                        cvar |-> local[w].cvar,
                        drawdown |-> local[w].drawdown,
                        last_update |-> now]

EvalPersist(w) ==
    /\ pc[w] = "eval_persist"
    /\ \E outcome \in PersistOutcomes :
         /\ disk' \in DiskAfterPersist(risk_state, outcome, disk)
         /\ last_save' = IF outcome = "ok" THEN "ok" ELSE "failed"
         /\ local' = [local EXCEPT ![w].save = last_save']
         /\ risk_state' = MemoryAfterPersist(risk_state, outcome)
    /\ pc' = [pc EXCEPT ![w] = "eval_respond"]
    /\ UNCHANGED <<lock, resp, now, served,
                   last_written, last_fetch, mc_vars, bt_vars>>

EvalRespond(w) ==
    /\ pc[w] = "eval_respond"
    /\ resp' = [resp EXCEPT ![w] =
            [op |-> "evaluate", status |-> 200,
             value_at_risk |-> local[w].var,
             conditional_var |-> local[w].cvar,
             drawdown |-> local[w].drawdown,
             exposure |-> local[w].exposure]]
    /\ lock' = NoOwner
    /\ pc' = [pc EXCEPT ![w] = "done"]
    /\ UNCHANGED <<risk_state, local, disk, now, served,
                   last_written, last_save, last_fetch, mc_vars, bt_vars>>

(***************************************************************************)
(* POST /risk/validate                                                     *)
(***************************************************************************)
TradeDrawdowns == {Zero, Rat(8, 100), Rat(9, 100)}
TradeQuantities == {R(-1), R(1)}
TradePrices == {R(100), R(300)}
TradePortfolioValues == {R(0), R(1000)}
TradeSet == [current_drawdown : TradeDrawdowns, max_drawdown : {Rat(8, 100)},
             quantity : TradeQuantities, price : TradePrices,
             portfolio_value : TradePortfolioValues]

\* RISK_MAX_EXPOSURE: unset, not a number, or a number
EnvMaxExposureValues == {"unset", "abc", "0.5"}
DefaultMaxExposure == Rat(75, 100)
\* std::env::var(..).ok().and_then(|s| s.parse().ok()).unwrap_or(0.75)
MaxExposure(env) == IF env = "0.5" THEN Rat(1, 2) ELSE DefaultMaxExposure

\* {:.2} of a non-negative value: two decimals, rounded
Fmt2(x) == Rat((2 * x[1] * 100 + x[2]) \div (2 * x[2]), 100)

\* The drawdown comparison taken the wrong way round
DrawdownExceededReversed(trade) == RLt(trade.current_drawdown, trade.max_drawdown)

DrawdownExceeded(trade) == RGt(trade.current_drawdown, trade.max_drawdown)

\* An exposure check that forgets the exposure already held
PostTradeExposureOfTradeAlone(total_exposure, trade) ==
    IF RGt(trade.portfolio_value, Zero)
    THEN RDiv(RMul(trade.quantity, trade.price), trade.portfolio_value)
    ELSE Zero

PostTradeExposure(total_exposure, trade) ==
    LET trade_value == RMul(trade.quantity, trade.price)
    IN  IF RGt(trade.portfolio_value, Zero)
        THEN RDiv(RAdd(RMul(total_exposure, trade.portfolio_value), trade_value),
                  trade.portfolio_value)
        ELSE Zero

ExposureExceeded(post_trade_exposure, max_exposure) ==
    RGt(post_trade_exposure, max_exposure)

ValBegin(w, trade) ==
    /\ Free(w)
    /\ local' = [local EXCEPT ![w] =
            [op |-> "validate", trade |-> trade, post_trade_exposure |-> None,
             max_exposure |-> None, read_exposure |-> None, seen |-> None,
             seen_at_approval |-> None, env |-> None,
             torn |-> risk_state # last_written]]
    /\ pc' = [pc EXCEPT ![w] = "val_lock"]
    /\ served' = served + 1
    /\ UNCHANGED <<risk_state, lock, resp, disk, now,
                   last_written, last_save, last_fetch, mc_vars, bt_vars>>

ValLock(w) ==
    /\ pc[w] = "val_lock"
    /\ CanLock(w)
    /\ lock' = w
    /\ pc' = [pc EXCEPT ![w] = "val_check_drawdown"]
    /\ UNCHANGED <<risk_state, local, resp, disk, now, served,
                   last_written, last_save, last_fetch, mc_vars, bt_vars>>

\* A drawdown rejection that returns without dropping the guard
ValCheckDrawdownKeepsLock(w) ==
    /\ pc[w] = "val_check_drawdown"
    /\ IF DrawdownExceeded(local[w].trade)
       THEN /\ resp' = [resp EXCEPT ![w] =
                    [op |-> "validate", status |-> 200, approved |-> FALSE,
                     reason |-> <<"Current drawdown exceeds maximum",
                                  Fmt2(RMul(local[w].trade.current_drawdown, R(100))),
                                  Fmt2(RMul(local[w].trade.max_drawdown, R(100)))>>,
                     post_trade_exposure |-> None,
                     projected_drawdown |-> None]]
            /\ pc' = [pc EXCEPT ![w] = "done"]
            /\ last_fetch' = ReadBetween(last_fetch)
            /\ UNCHANGED lock
       ELSE /\ pc' = [pc EXCEPT ![w] = "val_check_exposure"]
            /\ UNCHANGED <<resp, lock, last_fetch>>
    /\ UNCHANGED <<risk_state, local, disk, now, served,
                   last_written, last_save, mc_vars, bt_vars>>

\* Check 1: current drawdown vs max drawdown
ValCheckDrawdown(w) ==
    /\ pc[w] = "val_check_drawdown"
    /\ IF DrawdownExceeded(local[w].trade)
       THEN /\ resp' = [resp EXCEPT ![w] =
                    [op |-> "validate", status |-> 200, approved |-> FALSE,
                     reason |-> <<"Current drawdown exceeds maximum",
                                  Fmt2(RMul(local[w].trade.current_drawdown, R(100))),
                                  Fmt2(RMul(local[w].trade.max_drawdown, R(100)))>>,
                     post_trade_exposure |-> None,
                     projected_drawdown |-> None]]
            /\ lock' = NoOwner
            /\ pc' = [pc EXCEPT ![w] = "done"]
            /\ last_fetch' = ReadBetween(last_fetch)
       ELSE /\ pc' = [pc EXCEPT ![w] = "val_check_exposure"]
            /\ UNCHANGED <<resp, lock, last_fetch>>
    /\ UNCHANGED <<risk_state, local, disk, now, served,
                   last_written, last_save, mc_vars, bt_vars>>

\* Check 2: post-trade exposure
ValCheckExposure(w) ==
    /\ pc[w] = "val_check_exposure"
    /\ \E env \in EnvMaxExposureValues :
        LET post_trade_exposure ==
                PostTradeExposure(risk_state.total_exposure, local[w].trade)
            max_exposure == MaxExposure(env)
        IN  /\ local' = [local EXCEPT
                    ![w].post_trade_exposure = Some(post_trade_exposure),
                    ![w].max_exposure = Some(max_exposure),
                    ![w].read_exposure = Some(risk_state.total_exposure),
                    ![w].env = Some(env),
                    ![w].seen = Some(last_written)]
            /\ IF ExposureExceeded(post_trade_exposure, max_exposure)
               THEN /\ resp' = [resp EXCEPT ![w] =
                            [op |-> "validate", status |-> 200, approved |-> FALSE,
                             reason |-> <<"Post-trade exposure exceeds maximum",
                                          Fmt2(RMul(post_trade_exposure, R(100))),
                                          Fmt2(RMul(max_exposure, R(100)))>>,
                             post_trade_exposure |-> Some(post_trade_exposure),
                             projected_drawdown |-> None]]
                    /\ lock' = NoOwner
                    /\ pc' = [pc EXCEPT ![w] = "done"]
                    /\ last_fetch' = ReadBetween(last_fetch)
               ELSE /\ pc' = [pc EXCEPT ![w] = "val_approve"]
                    /\ UNCHANGED <<resp, lock, last_fetch>>
    /\ UNCHANGED <<risk_state, disk, now, served,
                   last_written, last_save, mc_vars, bt_vars>>

\* An approval that books the trade's exposure into the shared state
ValApproveUpdatesExposure(w) ==
    /\ pc[w] = "val_approve"
    /\ resp' = [resp EXCEPT ![w] =
            [op |-> "validate", status |-> 200, approved |-> TRUE,
             reason |-> <<"Within exposure limits">>,
             post_trade_exposure |-> local[w].post_trade_exposure,
             projected_drawdown |-> Some(risk_state.drawdown)]]
    /\ local' = [local EXCEPT ![w].seen_at_approval = Some(last_written)]
    /\ risk_state' = [risk_state EXCEPT
                        !.total_exposure = local[w].post_trade_exposure[1]]
    /\ lock' = NoOwner
    /\ pc' = [pc EXCEPT ![w] = "done"]
    /\ last_fetch' = ReadBetween(last_fetch)
    /\ UNCHANGED <<disk, now, served, last_written, last_save, mc_vars, bt_vars>>

\* Check 3: projected drawdown, then approval
ValApprove(w) ==
    /\ pc[w] = "val_approve"
    /\ resp' = [resp EXCEPT ![w] =
            [op |-> "validate", status |-> 200, approved |-> TRUE,
             reason |-> <<"Within exposure limits">>,
             post_trade_exposure |-> local[w].post_trade_exposure,
             projected_drawdown |-> Some(risk_state.drawdown)]]
    /\ local' = [local EXCEPT ![w].seen_at_approval = Some(last_written)]
    /\ lock' = NoOwner
    /\ pc' = [pc EXCEPT ![w] = "done"]
    /\ last_fetch' = ReadBetween(last_fetch)
    /\ UNCHANGED <<risk_state, disk, now, served,
                   last_written, last_save, mc_vars, bt_vars>>

(***************************************************************************)
(* GET /risk/state                                                         *)
(***************************************************************************)
GetBegin(w) ==
    /\ Free(w)
    /\ local' = [local EXCEPT ![w] =
            [op |-> "state", torn |-> risk_state # last_written]]
    /\ pc' = [pc EXCEPT ![w] = "get_lock"]
    /\ served' = served + 1
    /\ UNCHANGED <<risk_state, lock, resp, disk, now,
                   last_written, last_save, last_fetch, mc_vars, bt_vars>>

GetLock(w) ==
    /\ pc[w] = "get_lock"
    /\ CanLock(w)
    /\ lock' = w
    /\ pc' = [pc EXCEPT ![w] = "get_clone"]
    /\ UNCHANGED <<risk_state, local, resp, disk, now, served,
                   last_written, last_save, last_fetch, mc_vars, bt_vars>>

GetRespond(w) ==
    /\ pc[w] = "get_clone"
    /\ resp' = [resp EXCEPT ![w] =
            [op |-> "state", status |-> 200, body |-> risk_state]]
    /\ last_fetch' = Some([body |-> risk_state, between |-> FALSE,
                            repeated |-> last_fetch # None /\ last_fetch[1].between])
    /\ lock' = NoOwner
    /\ pc' = [pc EXCEPT ![w] = "done"]
    /\ UNCHANGED <<risk_state, local, disk, now, served,
                   last_written, last_save, mc_vars, bt_vars>>

(***************************************************************************)
(* POST /risk/stress                                                       *)
(***************************************************************************)
ShockMaps == {<<>>} \cup [{"BTC"} -> {Zero, Rat(-1, 2)}]
             \cup [{"ETH"} -> {Rat(1, 10)}]
             \cup [{"BTC", "ETH"} -> {Zero}]
ScenarioSet == [name : {"s"}, shocks : ShockMaps]
ScenarioLists == SeqsUpTo(ScenarioSet, MaxScenarios)

\* scenario.shocks.get(&position.symbol).copied().unwrap_or(0.0)
ShockOf(scenario, position) ==
    IF position.symbol \in DOMAIN scenario.shocks
    THEN scenario.shocks[position.symbol]
    ELSE Zero

PositionValueBefore(position) == RMul(position.quantity, position.price)

\* A shocked price computed as price x shock
PositionValueAfterShockOnly(scenario, position) ==
    RMul(position.quantity, RMul(position.price, ShockOf(scenario, position)))

PositionValueAfter(scenario, position) ==
    RMul(position.quantity,
         RMul(position.price, RAdd(R(1), ShockOf(scenario, position))))

\* The loop over the positions: <<total_value_after, scenario_pnl>>
RECURSIVE ApplyShocks(_, _, _)
ApplyShocks(scenario, positions, acc) ==
    IF positions = <<>> THEN acc
    ELSE LET p == Head(positions)
             after == PositionValueAfter(scenario, p)
         IN  ApplyShocks(scenario, Tail(positions),
                         <<RAdd(acc[1], after),
                           RAdd(acc[2], RSub(after, PositionValueBefore(p)))>>)

ExposureAfter(initial_portfolio_value, total_value_after) ==
    IF RGt(initial_portfolio_value, Zero)
    THEN RDiv(total_value_after, initial_portfolio_value)
    ELSE Zero

DrawdownAfter(initial_portfolio_value, total_value_after) ==
    IF RGt(initial_portfolio_value, Zero)
    THEN RMax(RMul(RDiv(RSub(initial_portfolio_value, total_value_after),
                        initial_portfolio_value), R(100)),
              Zero)
    ELSE Zero

StressResult(positions, scenario) ==
    LET initial_portfolio_value == RSum(Values(positions))
        acc == ApplyShocks(scenario, positions, <<Zero, Zero>>)
    IN  [name |-> scenario.name,
         pnl |-> acc[2],
         exposure_after |-> ExposureAfter(initial_portfolio_value, acc[1]),
         drawdown_after |-> DrawdownAfter(initial_portfolio_value, acc[1])]

StressTest(w, positions, scenarios) ==
    /\ Free(w)
    /\ local' = [local EXCEPT ![w] =
            [op |-> "stress", positions |-> positions, scenarios |-> scenarios]]
    /\ resp' = [resp EXCEPT ![w] =
            [op |-> "stress", status |-> 200,
             results |-> [i \in 1..Len(scenarios) |->
                            StressResult(positions, scenarios[i])]]]
    /\ pc' = [pc EXCEPT ![w] = "done"]
    /\ served' = served + 1
    /\ last_fetch' = ReadBetween(last_fetch)
    /\ UNCHANGED <<risk_state, lock, disk, now,
                   last_written, last_save, mc_vars, bt_vars>>

Tick ==
    /\ now < MaxClock
    /\ now' = now + 1
    /\ UNCHANGED <<risk_state, lock, pc, local, resp, disk,
                   served, last_written, last_save, last_fetch, mc_vars, bt_vars>>

\* A worker thread accepts a request drawn from the given sets
BeginStep(w, positionLists, portfolioValues, confidences, trades, scenarioLists) ==
    \/ \E ps \in positionLists, pv \in portfolioValues, c \in confidences :
          EvalBegin(w, ps, pv, c)
    \/ \E t \in trades : ValBegin(w, t)
    \/ GetBegin(w)
    \/ \E ps \in positionLists, sc \in scenarioLists : StressTest(w, ps, sc)

\* A worker thread goes on with the handler it is in
HandlerStep(w) ==
    \/ EvalLock(w)
    \/ EvalSetExposure(w)
    \/ EvalSetPositions(w)
    \/ EvalSetVar(w)
    \/ EvalSetCvar(w)
    \/ EvalSetDrawdown(w)
    \/ EvalSetLastUpdate(w)
    \/ EvalPersist(w)
    \/ EvalRespond(w)
    \/ ValLock(w)
    \/ ValCheckDrawdown(w)
    \/ ValCheckExposure(w)
    \/ ValApprove(w)
    \/ GetLock(w)
    \/ GetRespond(w)

\* Requests of the concurrent specification: few inputs, every interleaving
Long == [symbol |-> "BTC", quantity |-> R(1), price |-> R(50)]
Short == [symbol |-> "BTC", quantity |-> R(-1), price |-> R(50)]
FewPositionLists == {<<Long>>, <<Short>>}
FewTrades == [current_drawdown : {Zero, Rat(9, 100)}, max_drawdown : {Rat(8, 100)},
              quantity : {R(1)}, price : {R(300)}, portfolio_value : {R(1000)}]
FewScenarioLists == {<< [name |-> "s", shocks |-> <<>>] >>}

Next ==
    \/ Tick
    \/ \E w \in Workers :
          \/ /\ served < MaxRequests
             /\ BeginStep(w, FewPositionLists, {R(100)}, {Rat(99, 100)}, FewTrades,
                          FewScenarioLists)
          \/ HandlerStep(w)

Spec == Init /\ [][Next]_vars

\* The scheduler runs every worker thread that can take a step, and a thread
\* that finds the Mutex free again and again gets it
Fairness ==
    \A w \in Workers :
        /\ WF_vars(HandlerStep(w))
        /\ SF_vars(EvalLock(w) \/ ValLock(w) \/ GetLock(w))

\* Two worker threads and a few requests, the clock standing still
MaxLiveRequests == 2

NextLive ==
    \E w \in Workers :
        \/ /\ served < MaxLiveRequests
           /\ BeginStep(w, FewPositionLists, {R(100)}, {Rat(99, 100)}, FewTrades,
                        FewScenarioLists)
        \/ HandlerStep(w)

SpecLive == Init /\ [][NextLive]_vars /\ Fairness

\* One worker thread serving requests one after the other, over all the inputs
\* of evaluate-risk and validate-trade; the clock stands still
BtcPositionLists ==
    SeqsUpTo([symbol : {"BTC"}, quantity : Quantities, price : Prices], MaxPositions)

NextSeq ==
    \/ /\ served < MaxSeqRequests
       /\ BeginStep("w1", BtcPositionLists, PortfolioValues, Confidences, TradeSet,
                    FewScenarioLists)
    \/ HandlerStep("w1")

SpecSeq == Init /\ [][NextSeq]_vars

\* The stress test alone, over all its inputs
NextStress ==
    \/ Tick
    \/ /\ served = 0
       /\ \E ps \in PositionLists, sc \in ScenarioLists : StressTest("w1", ps, sc)

SpecStress == Init /\ [][NextStress]_vars

(***************************************************************************)
(* risk_engine_rust_gpu: POST /risk/mc_var                                 *)
(*                                                                         *)
(* StdRng is modelled as a generator with a small hidden state and the     *)
(* normal sampler as a table of standard deviates; the response's          *)
(* runtime_ms (elapsed wall time) is not part of the model.                *)
(***************************************************************************)
MaxIter == 3
IterationCap == 1000000

RngStates == 0..3
\* StdRng::seed_from_u64
SeedFromU64(seed) == (2 * seed + 1) % 4
\* One draw advances the generator
RngNext(state) == (state + 1) % 4
\* The standard normal deviate the generator's state yields
Deviate(state) == R(IF state < 2 THEN state - 2 ELSE state - 1)

\* A generator that ignores the seed
InitialRngFromEntropy(seed, entropy) == entropy

\* The generator of one call: seeded, or from the entropy of the system
InitialRng(seed, entropy) ==
    IF seed # None THEN SeedFromU64(seed[1]) ELSE entropy

RECURSIVE ISqrtFrom(_, _)
ISqrtFrom(n, r) == IF (r + 1) * (r + 1) > n THEN r ELSE ISqrtFrom(n, r + 1)
\* sqrt, exact on the squares of rationals
RSqrt(x) == Rat(ISqrtFrom(x[1] * x[2], 0), x[2])

Mean(xs) == RDiv(RSum(xs), R(Len(xs)))
Variance(xs) ==
    LET m == Mean(xs)
    IN  RDiv(RSum([i \in 1..Len(xs) |-> RMul(RSub(xs[i], m), RSub(xs[i], m))]),
             R(Len(xs)))
StdDev(xs) == RSqrt(Variance(xs))

\* Normal::new(mean, std_dev).unwrap_or_else(|_| Normal::new(0.0, 0.01).unwrap())
NormalOf(mean, std_dev) ==
    IF RGe(std_dev, Zero) THEN <<mean, std_dev>> ELSE <<Zero, Rat(1, 100)>>

\* The loop drawing the samples
RECURSIVE Simulate(_, _, _)
Simulate(normal, rng, n) ==
    IF n = 0 THEN <<>>
    ELSE <<RAdd(normal[1], RMul(normal[2], Deviate(rng)))>>
         \o Simulate(normal, RngNext(rng), n - 1)

RECURSIVE Insert(_, _)
Insert(x, sorted) ==
    IF sorted = <<>> THEN <<x>>
    ELSE IF RLe(x, Head(sorted)) THEN <<x>> \o sorted
    ELSE <<Head(sorted)>> \o Insert(x, Tail(sorted))

RECURSIVE SortAscending(_)
SortAscending(xs) ==
    IF xs = <<>> THEN <<>> ELSE Insert(Head(xs), SortAscending(Tail(xs)))

\* ((1.0 - confidence) * iterations as f64) as usize
VarIndex(confidence, iterations) ==
    LET x == RMul(RSub(R(1), confidence), R(iterations))
    IN  x[1] \div x[2]

\* A tail that leaves out the samples equal to the bound
RECURSIVE FilterStrictlyBelow(_, _)
FilterStrictlyBelow(xs, bound) ==
    IF xs = <<>> THEN <<>>
    ELSE IF RLt(Head(xs), bound)
         THEN <<Head(xs)>> \o FilterStrictlyBelow(Tail(xs), bound)
    ELSE FilterStrictlyBelow(Tail(xs), bound)

RECURSIVE Filter(_, _)
Filter(xs, bound) ==
    IF xs = <<>> THEN <<>>
    ELSE IF RLe(Head(xs), bound) THEN <<Head(xs)>> \o Filter(Tail(xs), bound)
    ELSE Filter(Tail(xs), bound)

Take(xs, n) == SubSeq(xs, 1, IF n < Len(xs) THEN n ELSE Len(xs))

\* From the sort to the result: the samples drawn, the percentile and the tail
Percentile(samples, iterations, confidence) ==
    LET simulated_returns == SortAscending(samples)
        var_index == VarIndex(confidence, iterations)
        var == IF var_index < Len(simulated_returns)
               THEN RNeg(RMin(simulated_returns[var_index + 1], Zero))
               ELSE Zero
        tail_returns == Filter(Take(simulated_returns, var_index + 1), RNeg(var))
        cvar == IF tail_returns # <<>>
                THEN RDiv(RNeg(RSum(tail_returns)), R(Len(tail_returns)))
                ELSE RMul(var, Rat(13, 10))
    IN  [simulated_returns |-> simulated_returns, var_index |-> var_index,
         var |-> var, tail_returns |-> tail_returns,
         fallback |-> tail_returns = <<>>, cvar |-> cvar]

monte_carlo_var(returns, iterations, confidence, seed, entropy) ==
    IF returns = <<>> \/ iterations = 0 THEN <<Zero, Zero>>
    ELSE IF StdDev(returns) = Zero THEN <<Zero, Zero>>
    ELSE LET rng == InitialRng(seed, entropy)
             normal == NormalOf(Mean(returns), StdDev(returns))
             tail == Percentile(Simulate(normal, rng, iterations), iterations,
                                confidence)
         IN  <<tail.var, tail.cvar>>

\* req.iterations.min(1_000_000)
CapIterations(n) == IF n < IterationCap THEN n ELSE IterationCap
\* req.confidence.clamp(0.5, 0.999)
ClampConfidence(c) == RMin(RMax(c, Rat(1, 2)), Rat(999, 1000))

mc_var(req, entropy) ==
    LET iterations == CapIterations(req.iterations)
        confidence == ClampConfidence(req.confidence)
    IN  IF req.returns = <<>>
        THEN [status |-> 400, error |-> "returns array cannot be empty"]
        ELSE LET r == monte_carlo_var(req.returns, iterations, confidence,
                                      req.seed, entropy)
             IN  [status |-> 200, var |-> r[1], cvar |-> r[2],
                  iterations |-> iterations, confidence |-> confidence]

ReturnSeries == {<<>>, <<R(1), R(1)>>, <<R(-3), R(1)>>}
IterationCounts == {0, MaxIter, IterationCap + 1}
McConfidences == {Rat(3, 10), Rat(9, 10), Rat(3, 2)}
Seeds == {None, Some(0), Some(1)}
McRequests == [returns : ReturnSeries, iterations : IterationCounts,
               confidence : McConfidences, seed : Seeds]

\* The draws of a request can be simulated
Simulable(req) ==
    \/ req.iterations <= MaxIter
    \/ req.returns = <<>>
    \/ StdDev(req.returns) = Zero

\* One request served; history: the call is kept, and a seeded call may be
\* remembered to be compared with a later one
McVar(req, entropy, remember) ==
    /\ Simulable(req)
    /\ LET call == [req |-> req, resp |-> mc_var(req, entropy)]
       IN  /\ mc_last' = Some(call)
           /\ mc_first' =
                IF mc_first = None
                THEN IF remember /\ req.seed # None
                     THEN Some([call |-> call, others |-> FALSE])
                     ELSE None
                ELSE IF req = mc_first[1].call.req THEN mc_first
                     ELSE Some([call |-> mc_first[1].call, others |-> TRUE])
    /\ UNCHANGED <<srv_vars, bt_vars, mc_tail>>

InitMC ==
    /\ disk = FileAbsent
    /\ Init

RememberFor(req) == IF mc_first = None /\ req.seed # None THEN BOOLEAN ELSE {FALSE}

NextMC ==
    \E req \in McRequests :
        \E entropy \in RngStates, remember \in RememberFor(req) :
            McVar(req, entropy, remember)

SpecMC == InitMC /\ [][NextMC]_vars

\* The samples normal.sample can return, whatever the series and the generator
SampleValues == {R(-2), R(-1), Zero, R(1)}
SampleVectors == UNION {[1..n -> SampleValues] : n \in 1..MaxIter}
\* Confidence levels after the clamp
ClampedConfidences == {Rat(1, 2), Rat(2, 3), Rat(9, 10), Rat(999, 1000)}

\* One run of monte_carlo_var past its early returns: iterations samples are
\* drawn, sorted and turned into the result
McSimulate(samples, confidence) ==
    /\ mc_tail' = Some([samples |-> samples, iterations |-> Len(samples),
                        confidence |-> confidence,
                        tail |-> Percentile(samples, Len(samples), confidence)])
    /\ UNCHANGED <<srv_vars, bt_vars, mc_first, mc_last>>

NextTail ==
    \E samples \in SampleVectors, confidence \in ClampedConfidences :
        McSimulate(samples, confidence)

SpecTail == InitMC /\ [][NextTail]_vars

(***************************************************************************)
(* backtester_rust: one run of the command                                 *)
(*                                                                         *)
(* A division by zero yields NaN (0/0) as in f64; the Sharpe ratio holds   *)
(* the factor sqrt(252) / std_dev, which is not rational, and is kept as   *)
(* its signed square. The dates and the timestamp the report echoes are    *)
(* not part of the model.                                                  *)
(***************************************************************************)
MaxStrategies == 3
MaxBtIters == 1

StrategyNames == {"momentum", "meanrev"}
\* args.strategies.split(',') yields at least one identifier
StrategyLists == UNION {[1..k -> StrategyNames] : k \in 1..MaxStrategies}
BtIterCounts == 0..MaxBtIters
BtSymbols == <<"BTC">>
\* (rng.gen::<f64>() - 0.5) * 0.02 lies in [-0.01, 0.01)
MockReturns == {Rat(-1, 128), Zero, Rat(1, 128)}
ReturnVectors(iters) == [1..iters -> MockReturns]

NaN == <<0, 0>>
\* f64 division: 0/0 is NaN, x/0 is an infinity
FDiv(a, b) ==
    IF a = NaN \/ b = NaN THEN NaN
    ELSE IF b = Zero
         THEN IF a = Zero THEN NaN ELSE <<(IF a[1] < 0 THEN -1 ELSE 1), 0>>
         ELSE RDiv(a, b)
\* f64 comparison: false when either side is NaN
FGt(a, b) == a # NaN /\ b # NaN /\ RGt(a, b)

\* mean_return / std_dev * sqrt(252), as sign x square
SharpeSquared(mean_return, variance) ==
    LET sq == RDiv(RMul(R(252), RMul(mean_return, mean_return)), variance)
    IN  IF RLt(mean_return, Zero) THEN RNeg(sq) ELSE sq

\* variance.sqrt() > 0.0
StdDevPositive(variance) == FGt(variance, Zero)

\* The fold over the returns: <<peak, max_dd>>
RECURSIVE DrawdownFold(_, _)
DrawdownFold(returns, acc) ==
    IF returns = <<>> THEN acc
    ELSE LET r == Head(returns)
         IN  DrawdownFold(Tail(returns),
                          <<RMax(acc[1], r),
                            RMax(acc[2], RMax(RSub(acc[1], r), Zero))>>)

\* returns.iter().filter(|&&r| r > 0.0).count()
Wins(returns) == Cardinality({i \in 1..Len(returns) : RGt(returns[i], Zero)})

WinRate(returns) == FDiv(R(Wins(returns)), R(Len(returns)))

\* returns: the mock returns the thread's generator draws
run_strategy_backtest(strategy, symbols, iters, returns) ==
    LET total_return == RSum(returns)
        mean_return == FDiv(total_return, R(Len(returns)))
        variance ==
            FDiv(RSum([i \in 1..Len(returns) |->
                        RMul(RSub(returns[i], mean_return),
                             RSub(returns[i], mean_return))]),
                 R(Len(returns)))
    IN  [strategy |-> strategy,
         sharpe |-> IF StdDevPositive(variance)
                    THEN SharpeSquared(mean_return, variance)
                    ELSE Zero,
         max_drawdown |-> DrawdownFold(returns, <<Zero, Zero>>)[2],
         win_rate |-> WinRate(returns),
         total_return |-> total_return,
         trades |-> iters]

\* A collect() that appends the results as they arrive
PlaceInCompletionOrder(buffer, i, result) ==
    LET free == {j \in 1..Len(buffer) : buffer[j] = None}
        first == CHOOSE j \in free : \A k \in free : j <= k
    IN  [buffer EXCEPT ![first] = Some(result)]

\* par_iter().map(..).collect::<Vec<_>>(): the result of item i goes to slot i
Place(buffer, i, result) == [buffer EXCEPT ![i] = Some(result)]

\* Args::parse and the two split(',')
BtParse(strategies, iters) ==
    /\ bt_pc = "args"
    /\ bt_args' = Some([strategies |-> strategies, symbols |-> BtSymbols,
                        iters |-> iters])
    /\ bt_buffer' = [i \in 1..Len(strategies) |-> None]
    /\ bt_pc' = "running"
    /\ UNCHANGED <<srv_vars, mc_vars, bt_overtaken, bt_report>>

\* One item of the parallel map finishes, in any order
BtTask(i, returns) ==
    /\ bt_pc = "running"
    /\ i \in 1..Len(bt_buffer)
    /\ bt_buffer[i] = None
    /\ bt_buffer' = Place(bt_buffer, i,
                          run_strategy_backtest(bt_args[1].strategies[i],
                                                bt_args[1].symbols,
                                                bt_args[1].iters, returns))
    /\ bt_overtaken' = (bt_overtaken \/ \E j \in 1..(i - 1) : bt_buffer[j] = None)
    /\ UNCHANGED <<srv_vars, mc_vars, bt_pc, bt_args, bt_report>>

\* The report is assembled and written; a failed write panics
BtReport(written) ==
    /\ bt_pc = "running"
    /\ \A i \in 1..Len(bt_buffer) : bt_buffer[i] # None
    /\ bt_report' = IF written
                     THEN Some([symbols |-> bt_args[1].symbols,
                                strategies |-> [i \in 1..Len(bt_buffer) |->
                                                  bt_buffer[i][1]]])
                     ELSE None
    /\ bt_pc' = IF written THEN "done" ELSE "panicked"
    /\ UNCHANGED <<srv_vars, mc_vars, bt_args, bt_buffer, bt_overtaken>>

NextBt ==
    \/ \E strategies \in StrategyLists, iters \in BtIterCounts :
          BtParse(strategies, iters)
    \/ \E i \in 1..MaxStrategies :
          \E returns \in (IF bt_args = None THEN {<<>>}
                          ELSE ReturnVectors(bt_args[1].iters)) :
              BtTask(i, returns)
    \/ \E written \in BOOLEAN : BtReport(written)

InitBt ==
    /\ disk = FileAbsent
    /\ Init

SpecBt == InitBt /\ [][NextBt]_vars

(***************************************************************************)
(* Properties                                                              *)
(***************************************************************************)
\* The positions of evaluate_risk between taking the guard and dropping it
EvalCritical == {"eval_set_exposure", "eval_set_positions", "eval_set_var",
                 "eval_set_cvar", "eval_set_drawdown", "eval_set_last_update",
                 "eval_persist", "eval_respond"}

\* Worker w takes the step
Steps(w) == pc'[w] # pc[w] \/ local'[w] # local[w] \/ resp'[w] # resp[w]

\* C1: the shared RiskState is changed only by a step of evaluate-risk; a
\* step of validate-trade (drawdown rejection, exposure rejection, approval),
\* fetch-state or stress-test leaves every field unchanged, and a fetch-state
\* that follows another one with no evaluate-risk write between them returns
\* the same snapshot, whatever read-only requests ran in between.
C1_OnlyEvaluateMutates ==
    [][ /\ \A w \in Workers :
              Steps(w) /\ ~(local[w].op = "evaluate" /\ pc[w] \in EvalCritical)
                  => risk_state' = risk_state
        /\ risk_state' # risk_state
              => \E w \in Workers : /\ local[w].op = "evaluate"
                                    /\ pc[w] \in EvalCritical
                                    /\ lock = w
                                    /\ Steps(w)
        /\ \A w \in Workers :
              pc[w] = "get_clone" /\ pc'[w] = "done" /\ last_fetch # None
                  => resp'[w].body = last_fetch[1].body
      ]_vars

\* C1 witness: a second fetch-state has answered after read-only requests
\* ran since the first one, and no evaluate-risk wrote in between
C1_Witness ==
    \E w \in Workers :
        /\ pc[w] = "done"
        /\ resp[w].op = "state"
        /\ last_fetch # None
        /\ last_fetch[1].repeated
        /\ ~last_fetch[1].between
        /\ resp[w].body = last_fetch[1].body
        /\ \E v \in Workers : resp[v].op \in {"validate", "stress"}

\* C2: every read observes a consistent snapshot. The six fields fetch-state
\* returns, and the total_exposure and the drawdown one validate-trade call
\* uses, are the startup state or the values one single evaluate-risk call
\* wrote (last_written), never a partially updated state or a mix of two calls.
C2_ConsistentSnapshots ==
    [][ \A w \in Workers :
          /\ pc[w] = "get_clone" /\ pc'[w] = "done"
                => resp'[w].body = last_written
          /\ pc[w] = "val_check_exposure" /\ pc'[w] # pc[w]
                => /\ local'[w].read_exposure = Some(last_written.total_exposure)
                   /\ local'[w].post_trade_exposure =
                        Some(PostTradeExposure(last_written.total_exposure,
                                               local[w].trade))
          /\ pc[w] = "val_approve" /\ pc'[w] = "done"
                => /\ local[w].seen = Some(last_written)
                   /\ resp'[w].projected_drawdown = Some(last_written.drawdown)
      ]_vars

\* C2 witness: a fetch-state that arrived while an evaluate-risk call had
\* updated only some of the fields has answered with a complete snapshot
C2_Witness ==
    \E w \in Workers :
        /\ pc[w] = "done"
        /\ local[w].op = "state"
        /\ local[w].torn
        /\ resp[w].op = "state"
        /\ resp[w].body = last_written

\* An evaluate-risk call is between taking the guard and dropping it
EvaluateHoldsLock ==
    \E w \in Workers : local[w].op = "evaluate" /\ pc[w] \in EvalCritical

Computed(w, t) ==
    [total_exposure |-> local[w].exposure, active_positions |-> local[w].npos,
     var |-> local[w].var, cvar |-> local[w].cvar,
     drawdown |-> local[w].drawdown, last_update |-> t]

\* C4: when the save inside evaluate-risk fails, the in-memory RiskState
\* keeps the newly computed values, the call returns its success response
\* with those values, and later fetch-state and validate-trade calls read
\* those values.
C4_FailedSaveKeepsMemory ==
    [][ \A w \in Workers :
          /\ pc[w] = "eval_persist" /\ pc'[w] = "eval_respond"
             /\ last_save' = "failed"
                => /\ risk_state' = risk_state
                   /\ risk_state' = Computed(w, risk_state.last_update)
                   /\ risk_state' = last_written
          /\ pc[w] = "eval_respond" /\ pc'[w] = "done" /\ local[w].save = "failed"
                => /\ resp'[w] = [op |-> "evaluate", status |-> 200,
                                  value_at_risk |-> local[w].var,
                                  conditional_var |-> local[w].cvar,
                                  drawdown |-> local[w].drawdown,
                                  exposure |-> local[w].exposure]
                   /\ risk_state' = Computed(w, risk_state.last_update)
          /\ last_save = "failed" /\ pc[w] = "get_clone" /\ pc'[w] = "done"
                => resp'[w].body = last_written
          /\ last_save = "failed" /\ pc[w] = "val_check_exposure"
             /\ pc'[w] # pc[w]
                => local'[w].read_exposure = Some(last_written.total_exposure)
          /\ last_save = "failed" /\ pc[w] = "val_approve" /\ pc'[w] = "done"
                => resp'[w].projected_drawdown = Some(last_written.drawdown)
      ]_vars

\* C4 witness: an evaluate-risk call whose save failed has answered, the file
\* does not hold its values, and a later fetch-state has returned them
C4_Witness ==
    \E w, v \in Workers :
        /\ pc[v] = "done"
        /\ local[v].op = "evaluate"
        /\ local[v].save = "failed"
        /\ resp[v].op = "evaluate"
        /\ resp[v].status = 200
        /\ last_save = "failed"
        /\ disk # File(Serialize(risk_state))
        /\ pc[w] = "done"
        /\ resp[w].op = "state"
        /\ resp[w].body = Computed(v, risk_state.last_update)
        /\ resp[w].body # load_risk_state(disk, 0)
        /\ RGt(resp[w].body.var, Zero)

\* C5: in every reachable RiskState total_exposure >= 0, var >= 0, cvar >= 0
\* and 0 <= drawdown <= 100.
C5_StateInRange ==
    /\ RGe(risk_state.total_exposure, Zero)
    /\ RGe(risk_state.var, Zero)
    /\ RGe(risk_state.cvar, Zero)
    /\ RGe(risk_state.drawdown, Zero)
    /\ RLe(risk_state.drawdown, R(100))

\* C6: whenever the request's current_drawdown > max_drawdown, validate-trade
\* never reaches the exposure check, and it is rejected with a reason naming
\* both values (as percentages) and with neither post_trade_exposure nor
\* projected_drawdown, whatever the trade, portfolio_value and RiskState are.
C6_DrawdownCheckFirst ==
    \A w \in Workers :
        local[w].op = "validate"
        /\ RGt(local[w].trade.current_drawdown, local[w].trade.max_drawdown)
            => /\ pc[w] \in {"val_lock", "val_check_drawdown", "done"}
               /\ local[w].post_trade_exposure = None
               /\ pc[w] = "done"
                    => /\ resp[w].op = "validate"
                       /\ resp[w].approved = FALSE
                       /\ resp[w].reason[1] = "Current drawdown exceeds maximum"
                       /\ resp[w].reason[2] =
                            RMul(local[w].trade.current_drawdown, R(100))
                       /\ resp[w].reason[3] =
                            RMul(local[w].trade.max_drawdown, R(100))
                       /\ resp[w].post_trade_exposure = None
                       /\ resp[w].projected_drawdown = None

\* C6 witness: a request rejected for its drawdown whose exposure, had it been
\* checked, would have been over the limit too
C6_Witness ==
    \E w \in Workers :
        /\ pc[w] = "done"
        /\ local[w].op = "validate"
        /\ local[w].trade.current_drawdown = Rat(9, 100)
        /\ local[w].trade.max_drawdown = Rat(8, 100)
        /\ resp[w].approved = FALSE
        /\ resp[w].reason = <<"Current drawdown exceeds maximum", R(9), R(8)>>
        /\ RGt(risk_state.total_exposure, Zero)
        /\ RGt(local[w].trade.portfolio_value, Zero)
        /\ RGt(RAdd(risk_state.total_exposure,
                    RDiv(RMul(local[w].trade.quantity, local[w].trade.price),
                         local[w].trade.portfolio_value)),
               DefaultMaxExposure)

\* C7: when the drawdown check passes, post_trade_exposure is
\* (total_exposure x portfolio_value + quantity x price) / portfolio_value if
\* portfolio_value > 0 and 0 otherwise; the trade is rejected exactly when
\* post_trade_exposure > max_exposure (0.75 unless configured) and approved
\* otherwise, and the response carries post_trade_exposure in both cases;
\* total_exposure 0.5, portfolio_value 1000, quantity 1, price 300 gives 0.8
\* and a rejection.
C7_ExposureCheck ==
    \A w \in Workers :
        local[w].op = "validate" /\ local[w].post_trade_exposure # None
            => LET t   == local[w].trade
                   te  == local[w].read_exposure[1]
                   pte == local[w].post_trade_exposure[1]
                   mx  == local[w].max_exposure[1]
               IN  /\ RLe(t.current_drawdown, t.max_drawdown)
                   /\ te = risk_state.total_exposure
                   /\ RGt(t.portfolio_value, Zero)
                        => RMul(pte, t.portfolio_value) =
                             RAdd(RMul(te, t.portfolio_value),
                                  RMul(t.quantity, t.price))
                   /\ RLe(t.portfolio_value, Zero) => pte = Zero
                   /\ local[w].env[1] \in {"unset", "abc"} => mx = Rat(3, 4)
                   /\ pc[w] \in {"val_approve", "done"}
                   /\ pc[w] = "val_approve" => ~RGt(pte, mx)
                   /\ pc[w] = "done"
                        => /\ resp[w].op = "validate"
                           /\ resp[w].approved = ~RGt(pte, mx)
                           /\ resp[w].post_trade_exposure = Some(pte)
                   /\ te = Rat(1, 2) /\ t.portfolio_value = R(1000)
                      /\ t.quantity = R(1) /\ t.price = R(300)
                        => /\ pte = Rat(8, 10)
                           /\ mx = Rat(3, 4) /\ pc[w] = "done"
                                => resp[w].approved = FALSE

\* C7 witness: the example of the claim has been rejected at the default limit
C7_Witness ==
    \E w \in Workers :
        /\ pc[w] = "done"
        /\ local[w].op = "validate"
        /\ local[w].read_exposure = Some(Rat(1, 2))
        /\ local[w].trade.portfolio_value = R(1000)
        /\ local[w].trade.quantity = R(1)
        /\ local[w].trade.price = R(300)
        /\ local[w].env = Some("unset")
        /\ resp[w].approved = FALSE
        /\ resp[w].post_trade_exposure = Some(Rat(8, 10))
        /\ resp[w].projected_drawdown = None

\* The scenario's shocks are all 0, or it names none of the held symbols
ZeroShocks(scenario, positions) ==
    \/ \A sym \in DOMAIN scenario.shocks : scenario.shocks[sym] = Zero
    \/ \A i \in 1..Len(positions) :
          positions[i].symbol \notin DOMAIN scenario.shocks

\* C8 as stated: for every position set, a scenario whose shocks are all 0
\* (or that names none of the held symbols) yields pnl = 0,
\* exposure_after = 1.0 and drawdown_after = 0.
C8_ZeroShockAlwaysFullExposure ==
    \A w \in Workers :
        local[w].op = "stress" /\ resp[w].op = "stress"
            => \A i \in 1..Len(local[w].scenarios) :
                 ZeroShocks(local[w].scenarios[i], local[w].positions)
                    => /\ resp[w].results[i].pnl = Zero
                       /\ resp[w].results[i].exposure_after = R(1)
                       /\ resp[w].results[i].drawdown_after = Zero

\* C8 as amended: such a scenario yields pnl = 0 and drawdown_after = 0, and
\* exposure_after = 1.0 when the positions' total value (sum of quantity x
\* price) is positive and 0 otherwise.
C8_ZeroShockNeutral ==
    \A w \in Workers :
        local[w].op = "stress" /\ resp[w].op = "stress"
            => \A i \in 1..Len(local[w].scenarios) :
                 ZeroShocks(local[w].scenarios[i], local[w].positions)
                    => /\ resp[w].results[i].pnl = Zero
                       /\ resp[w].results[i].drawdown_after = Zero
                       /\ resp[w].results[i].exposure_after =
                            IF RGt(RSum(Values(local[w].positions)), Zero)
                            THEN R(1) ELSE Zero

\* C8 witness: two positions of positive total value under a scenario that
\* names a held symbol with shock 0
C8_Witness ==
    \E w \in Workers :
        /\ local[w].op = "stress"
        /\ resp[w].op = "stress"
        /\ Len(local[w].positions) = 2
        /\ Len(local[w].scenarios) = 1
        /\ "BTC" \in DOMAIN local[w].scenarios[1].shocks
        /\ \E i \in 1..2 : local[w].positions[i].symbol = "BTC"
        /\ ZeroShocks(local[w].scenarios[1], local[w].positions)
        /\ resp[w].results[1].pnl = Zero
        /\ resp[w].results[1].exposure_after = R(1)
        /\ resp[w].results[1].drawdown_after = Zero

\* C9: two Monte Carlo calls with the same returns, iterations, confidence
\* and seed answer with identical (var, cvar), whatever the entropy of the
\* system is at either call and whatever calls were served before or between.
C9_SeededDeterminism ==
    mc_first # None /\ mc_last # None
    /\ mc_last[1].req = mc_first[1].call.req
        => /\ mc_last[1].resp.status = mc_first[1].call.resp.status
           /\ mc_last[1].resp.status = 200
                => /\ mc_last[1].resp.var = mc_first[1].call.resp.var
                   /\ mc_last[1].resp.cvar = mc_first[1].call.resp.cvar

\* C9 witness: a seeded call with a positive var, other calls after it, and
\* then the same request again with the same answer
C9_Witness ==
    /\ mc_first # None
    /\ mc_last # None
    /\ mc_first[1].others
    /\ mc_last[1].req = mc_first[1].call.req
    /\ mc_last[1].req.seed # None
    /\ mc_last[1].resp.status = 200
    /\ RGt(mc_last[1].resp.var, Zero)
    /\ mc_last[1].resp.var = mc_first[1].call.resp.var
    /\ mc_last[1].resp.cvar = mc_first[1].call.resp.cvar

\* C10: for every Monte Carlo request, the confidence and the iteration count
\* that reach the computation and are echoed in the response satisfy
\* 0.5 < confidence <= 0.999 and iterations <= 1,000,000.
C10_ParametersInRange ==
    mc_last # None /\ mc_last[1].resp.status = 200
        => /\ RGt(mc_last[1].resp.confidence, Rat(1, 2))
           /\ RLe(mc_last[1].resp.confidence, Rat(999, 1000))
           /\ mc_last[1].resp.iterations <= 1000000

\* C11: for every strategy and any iteration count (including 0), the
\* backtest result's win_rate is a number in [0, 1].
C11_WinRateInUnitInterval ==
    \A i \in 1..Len(bt_buffer) :
        bt_buffer[i] # None
            => /\ bt_buffer[i][1].win_rate[2] > 0
               /\ RGe(bt_buffer[i][1].win_rate, Zero)
               /\ RLe(bt_buffer[i][1].win_rate, R(1))

\* C12: the report holds exactly one BacktestResult per input strategy, and
\* the i-th result carries the i-th strategy identifier of the caller's list,
\* whatever the order in which the parallel items finish.
C12_ReportInInputOrder ==
    bt_report # None
        => /\ Len(bt_report[1].strategies) = Len(bt_args[1].strategies)
           /\ \A i \in 1..Len(bt_args[1].strategies) :
                 /\ bt_report[1].strategies[i].strategy = bt_args[1].strategies[i]
                 /\ bt_report[1].strategies[i] = bt_buffer[i][1]

\* C12 witness: a report over three strategies, not all of one name, some of
\* which finished before a strategy listed earlier
C12_Witness ==
    /\ bt_pc = "done"
    /\ bt_report # None
    /\ bt_overtaken
    /\ Len(bt_args[1].strategies) = 3
    /\ bt_args[1].strategies[1] # bt_args[1].strategies[3]
    /\ \A i \in 1..3 :
          bt_report[1].strategies[i].strategy = bt_args[1].strategies[i]

\* The positions at which a handler waits for the guard, and holds it
Waiting == {"eval_lock", "val_lock", "get_lock"}
Holding == EvalCritical \cup {"val_check_drawdown", "val_check_exposure",
                              "val_approve", "get_clone"}

C14_TailBounds ==
    mc_tail # None =>
        LET run == mc_tail[1]
            t == run.tail
            k == VarIndex(run.confidence, run.iterations)
            prefix == Take(t.simulated_returns, k + 1)
        IN  /\ t.var_index = k
            /\ k < Len(t.simulated_returns)
            /\ RGe(t.var, Zero)
            /\ RGe(t.cvar, t.var)
            /\ RGt(t.var, Zero) => t.tail_returns = prefix /\ prefix # <<>>
            /\ t.fallback => t.var = Zero /\ t.cvar = Zero

\* C14 witness: three samples at confidence 1/2, the percentile sample is a
\* loss below a larger loss, and the tail holds both
C14_Witness ==
    /\ mc_tail # None
    /\ mc_tail[1].iterations = MaxIter
    /\ mc_tail[1].tail.var_index > 0
    /\ RGt(mc_tail[1].tail.var, Zero)
    /\ RGt(mc_tail[1].tail.cvar, mc_tail[1].tail.var)
    /\ Len(mc_tail[1].tail.tail_returns) = mc_tail[1].tail.var_index + 1

====
